---------------------------- MODULE Spec2Model ----------------------------
(***************************************************************************)
(* Model of sdk/helper/certutil/cieps.go: the CIEPS request and response   *)
(* objects, CIEPSRequest.ParseUserCSR and CIEPSResponse.MarshalCertificate.*)
(*                                                                         *)
(* Text and DER are sequences of bytes (naturals below 256, ASCII for      *)
(* text).  encoding/pem and encoding/base64 are modelled byte for byte as  *)
(* the Go standard library computes them; x509 parsing is modelled on the  *)
(* outermost DER layer (SEQUENCE tag, short-form length, content).         *)
(***************************************************************************)
EXTENDS Integers, Sequences, FiniteSets, TLC

(***************************************************************************)
(* bytes package helpers                                                   *)
(***************************************************************************)
Drop(s, n) == SubSeq(s, n + 1, Len(s))

Take(s, n) == SubSeq(s, 1, n)

HasPrefix(s, p) == Len(s) >= Len(p) /\ Take(s, Len(p)) = p

HasSuffix(s, p) == Len(s) >= Len(p) /\ Drop(s, Len(s) - Len(p)) = p

\* bytes.Index: offset (from 0) of the first occurrence of p in s, or -1
Index(s, p) ==
    LET hits == {i \in 0..(Len(s) - Len(p)) : SubSeq(s, i + 1, i + Len(p)) = p}
    IN  IF hits = {} THEN -1 ELSE CHOOSE i \in hits : \A j \in hits : i <= j

\* bytes.TrimRight(s, " \t")
RECURSIVE TrimRightBlank(_)
TrimRightBlank(s) ==
    IF Len(s) > 0 /\ s[Len(s)] \in {32, 9}
    THEN TrimRightBlank(Take(s, Len(s) - 1))
    ELSE s

\* bytes.TrimSpace is only used on header keys and values, which the model
\* does not keep; a header contributes only its presence.

(***************************************************************************)
(* ASCII text of the PEM markers                                           *)
(***************************************************************************)
\* "\n-----BEGIN "
pemStart == <<10, 45, 45, 45, 45, 45, 66, 69, 71, 73, 78, 32>>

\* "\n-----END "
pemEnd == <<10, 45, 45, 45, 45, 45, 69, 78, 68, 32>>

\* "-----"
pemEndOfLine == <<45, 45, 45, 45, 45>>

\* ":"
colon == <<58>>

\* "CERTIFICATE"
CertificateType == <<67, 69, 82, 84, 73, 70, 73, 67, 65, 84, 69>>

\* "CERTIFICATE REQUEST"
CertificateRequestType == CertificateType \o <<32, 82, 69, 81, 85, 69, 83, 84>>

(***************************************************************************)
(* encoding/base64, StdEncoding                                            *)
(***************************************************************************)
\* the character of the 6-bit value v
EncodeChar(v) ==
    IF v < 26 THEN 65 + v
    ELSE IF v < 52 THEN 97 + (v - 26)
    ELSE IF v < 62 THEN 48 + (v - 52)
    ELSE IF v = 62 THEN 43
    ELSE 47

\* the 6-bit value of character c, or -1
DecodeChar(c) ==
    IF c >= 65 /\ c <= 90 THEN c - 65
    ELSE IF c >= 97 /\ c <= 122 THEN c - 97 + 26
    ELSE IF c >= 48 /\ c <= 57 THEN c - 48 + 52
    ELSE IF c = 43 THEN 62
    ELSE IF c = 47 THEN 63
    ELSE -1

RECURSIVE Base64Encode(_)
Base64Encode(src) ==
    IF Len(src) = 0 THEN <<>>
    ELSE IF Len(src) = 1 THEN
        <<EncodeChar(src[1] \div 4), EncodeChar((src[1] % 4) * 16), 61, 61>>
    ELSE IF Len(src) = 2 THEN
        <<EncodeChar(src[1] \div 4),
          EncodeChar((src[1] % 4) * 16 + src[2] \div 16),
          EncodeChar((src[2] % 16) * 4), 61>>
    ELSE
        <<EncodeChar(src[1] \div 4),
          EncodeChar((src[1] % 4) * 16 + src[2] \div 16),
          EncodeChar((src[2] % 16) * 4 + src[3] \div 64),
          EncodeChar(src[3] % 64)>> \o Base64Encode(Drop(src, 3))

\* Decoding ignores '\r' and '\n'
StripNewlines(s) == SelectSeq(s, LAMBDA c : c \notin {10, 13})

\* One quantum of four characters; last is TRUE for the final quantum, the
\* only one that may be padded.  [ok, bytes]
DecodeQuantum(q, last) ==
    LET v == [i \in 1..4 |-> DecodeChar(q[i])]
    IN  IF v[1] >= 0 /\ v[2] >= 0 /\ v[3] >= 0 /\ v[4] >= 0 THEN
            [ok |-> TRUE,
             bytes |-> <<v[1] * 4 + v[2] \div 16,
                         (v[2] % 16) * 16 + v[3] \div 4,
                         (v[3] % 4) * 64 + v[4]>>]
        ELSE IF last /\ v[1] >= 0 /\ v[2] >= 0 /\ v[3] >= 0 /\ q[4] = 61 THEN
            [ok |-> TRUE,
             bytes |-> <<v[1] * 4 + v[2] \div 16,
                         (v[2] % 16) * 16 + v[3] \div 4>>]
        ELSE IF last /\ v[1] >= 0 /\ v[2] >= 0 /\ q[3] = 61 /\ q[4] = 61 THEN
            [ok |-> TRUE, bytes |-> <<v[1] * 4 + v[2] \div 16>>]
        ELSE [ok |-> FALSE, bytes |-> <<>>]

RECURSIVE DecodeQuanta(_)
DecodeQuanta(s) ==
    IF Len(s) = 0 THEN [ok |-> TRUE, bytes |-> <<>>]
    ELSE IF Len(s) < 4 THEN [ok |-> FALSE, bytes |-> <<>>]
    ELSE LET q == DecodeQuantum(Take(s, 4), Len(s) = 4)
             r == DecodeQuanta(Drop(s, 4))
         IN  IF q.ok /\ r.ok
             THEN [ok |-> TRUE, bytes |-> q.bytes \o r.bytes]
             ELSE [ok |-> FALSE, bytes |-> <<>>]

\* base64.StdEncoding.Decode: [ok, bytes]
Base64Decode(s) == DecodeQuanta(StripNewlines(s))

(***************************************************************************)
(* encoding/pem                                                            *)
(***************************************************************************)
\* getLine, given the offset i of the first "\n" of data (or -1): the line
\* without its "\r\n" or "\n" and trailing blanks, and what follows it
CutLine(data, i) ==
    IF i < 0 THEN [line |-> TrimRightBlank(data), rest |-> <<>>]
    ELSE [line |-> TrimRightBlank(
                      Take(data, IF i > 0 /\ data[i] = 13 THEN i - 1 ELSE i)),
          rest |-> Drop(data, i + 1)]

getLine(data) == CutLine(data, Index(data, <<10>>))

removeSpacesAndTabs(data) == SelectSeq(data, LAMBDA c : c \notin {32, 9})

\* pemLineLength
pemLineLength == 64

\* lineBreaker: every full line of pemLineLength characters and the last,
\* shorter one are each followed by "\n"
RECURSIVE BreakLines(_)
BreakLines(s) ==
    IF Len(s) = 0 THEN <<>>
    ELSE IF Len(s) <= pemLineLength THEN s \o <<10>>
    ELSE Take(s, pemLineLength) \o <<10>> \o BreakLines(Drop(s, pemLineLength))

\* EncodeToMemory with the END line glued to the last line of base64
EncodeToMemory_NoLineEnd(type, bytes) ==
    Drop(pemStart, 1) \o type \o pemEndOfLine \o <<10>>
    \o Base64Encode(bytes)
    \o Drop(pemEnd, 1) \o type \o pemEndOfLine \o <<10>>

\* pem.EncodeToMemory of a block without headers
EncodeToMemory(type, bytes) ==
    Drop(pemStart, 1) \o type \o pemEndOfLine \o <<10>>
    \o BreakLines(Base64Encode(bytes))
    \o Drop(pemEnd, 1) \o type \o pemEndOfLine \o <<10>>

\* The header loop of pem.Decode: lines holding a colon are headers.
\* [eof, n, rest]: eof when the input ends inside the loop, n the number of
\* header lines consumed, rest what follows them
RECURSIVE SkipHeaders(_, _)
HeaderLine(rest, n, l) ==
    IF Index(l.line, colon) < 0
    THEN [eof |-> FALSE, n |-> n, rest |-> rest]
    ELSE SkipHeaders(l.rest, n + 1)

SkipHeaders(rest, n) ==
    IF Len(rest) = 0 THEN [eof |-> TRUE, n |-> n, rest |-> rest]
    ELSE HeaderLine(rest, n, getLine(rest))

\* No block: pem.Decode returns (nil, data), the whole input
NoBlock(data) == [found |-> FALSE, Type |-> <<>>, Bytes |-> <<>>, rest |-> data]

\* The loop of pem.Decode, one operator per section of its body; every
\* "continue" of the code is DecodeLoop on the advanced rest
RECURSIVE DecodeLoop(_, _)
\* The base64 body is decoded; the block and what follows its END line
DecodeData(data, typeLine, rest, endIndex, dec) ==
    IF ~dec.ok THEN DecodeLoop(data, rest)
    ELSE [found |-> TRUE, Type |-> typeLine, Bytes |-> dec.bytes,
          rest |-> getLine(Drop(rest, endIndex + Len(pemEnd) - 1)).rest]

\* The END line must name the block's type, end in five dashes and hold
\* nothing more than blanks
DecodeTrailer(data, typeLine, rest, endIndex, endTrailer) ==
    IF Len(endTrailer) < Len(typeLine) + Len(pemEndOfLine)
    THEN DecodeLoop(data, rest)
    ELSE IF \/ ~HasPrefix(Take(endTrailer, Len(typeLine) + Len(pemEndOfLine)), typeLine)
            \/ ~HasSuffix(Take(endTrailer, Len(typeLine) + Len(pemEndOfLine)), pemEndOfLine)
    THEN DecodeLoop(data, rest)
    ELSE IF Len(getLine(Drop(endTrailer, Len(typeLine) + Len(pemEndOfLine))).line) # 0
    THEN DecodeLoop(data, rest)
    ELSE DecodeData(data, typeLine, rest, endIndex,
                    Base64Decode(removeSpacesAndTabs(Take(rest, endIndex))))

\* The END marker is looked for after the headers
DecodeEnd(data, typeLine, rest, endIndex, endTrailerIndex) ==
    IF endIndex < 0 THEN DecodeLoop(data, rest)
    ELSE DecodeTrailer(data, typeLine, rest, endIndex, Drop(rest, endTrailerIndex))

\* Without headers the END line may follow at once, with no newline
\* before it
DecodeHeaders(data, typeLine, h) ==
    IF h.eof THEN NoBlock(data)
    ELSE IF h.n = 0 /\ HasPrefix(h.rest, Drop(pemEnd, 1))
    THEN DecodeEnd(data, typeLine, h.rest, 0, Len(pemEnd) - 1)
    ELSE DecodeEnd(data, typeLine, h.rest, Index(h.rest, pemEnd),
                   Index(h.rest, pemEnd) + Len(pemEnd))

\* The line after the BEGIN marker must end in five dashes
DecodeTypeLine(data, tl) ==
    IF ~HasSuffix(tl.line, pemEndOfLine) THEN DecodeLoop(data, tl.rest)
    ELSE DecodeHeaders(data, Take(tl.line, Len(tl.line) - Len(pemEndOfLine)),
                       SkipHeaders(tl.rest, 0))

\* The BEGIN marker is looked for at the start of rest, then after a
\* newline anywhere in it
DecodeStart(data, rest, at) ==
    IF HasPrefix(rest, Drop(pemStart, 1))
    THEN DecodeTypeLine(data, getLine(Drop(rest, Len(pemStart) - 1)))
    ELSE IF at >= 0
    THEN DecodeTypeLine(data, getLine(Drop(rest, at + Len(pemStart))))
    ELSE NoBlock(data)

DecodeLoop(data, rest) == DecodeStart(data, rest, Index(rest, pemStart))

\* pem.Decode(data): the first PEM block of data and the remainder
Decode(data) == DecodeLoop(data, data)

(***************************************************************************)
(* Go values                                                               *)
(***************************************************************************)
\* A pointer is nil or holds one object
Nil == <<>>

Ptr(x) == <<x>>

\* An interface{} value of a key-value map, with its dynamic type as %T
\* prints it
StringValue(s) == [T |-> "string", str |-> s]

OtherValue(t) == [T |-> t, str |-> <<>>]

\* An error value: the format string of fmt.Errorf and its argument (%T and
\* %w as text, %v as a number); the nil error has the empty format
Errorf(msg, text, n) == [msg |-> msg, text |-> text, n |-> n]

NoError == Errorf("", "", 0)

(***************************************************************************)
(* crypto/x509, on the outermost DER layer: a certificate request is a     *)
(* SEQUENCE (tag 48) whose short-form length byte counts exactly the bytes *)
(* that follow it.                                                         *)
(***************************************************************************)
\* x509.ParseCertificateRequest(asn1Data): [err, csr]
ParseCertificateRequest(asn1Data) ==
    IF Len(asn1Data) < 2 THEN
        [err |-> "asn1: syntax error: truncated tag or length", csr |-> Nil]
    ELSE IF asn1Data[1] # 48 THEN
        [err |-> "asn1: structure error: tags don't match", csr |-> Nil]
    ELSE IF asn1Data[2] > Len(asn1Data) - 2 THEN
        [err |-> "asn1: syntax error: data truncated", csr |-> Nil]
    ELSE IF asn1Data[2] < Len(asn1Data) - 2 THEN
        [err |-> "asn1: syntax error: trailing data", csr |-> Nil]
    ELSE [err |-> "",
          csr |-> Ptr([Raw |-> asn1Data,
                       RawTBSCertificateRequest |-> Drop(asn1Data, 2)])]

(***************************************************************************)
(* CIEPSRequest                                                            *)
(***************************************************************************)
\* LookupCSR without the check for the empty string
LookupCSR_NoEmptyCheck(UserRequestKV) ==
    IF "csr" \notin DOMAIN UserRequestKV THEN
        [err |-> Errorf("missing expected 'csr' attribute on the request", "", 0),
         csrValue |-> <<>>]
    ELSE IF UserRequestKV["csr"].T # "string" THEN
        [err |-> Errorf("unexpected type of 'csr' attribute: %T",
                        UserRequestKV["csr"].T, 0),
         csrValue |-> <<>>]
    ELSE [err |-> NoError, csrValue |-> UserRequestKV["csr"].str]

\* The 'csr' lookup of ParseUserCSR: present, a string, not empty.
\* [err, csrValue]
LookupCSR(UserRequestKV) ==
    IF "csr" \notin DOMAIN UserRequestKV THEN
        [err |-> Errorf("missing expected 'csr' attribute on the request", "", 0),
         csrValue |-> <<>>]
    ELSE IF UserRequestKV["csr"].T # "string" THEN
        [err |-> Errorf("unexpected type of 'csr' attribute: %T",
                        UserRequestKV["csr"].T, 0),
         csrValue |-> <<>>]
    ELSE IF UserRequestKV["csr"].str = <<>> THEN
        [err |-> Errorf("unexpectedly empty 'csr' attribute on the request", "", 0),
         csrValue |-> <<>>]
    ELSE [err |-> NoError, csrValue |-> UserRequestKV["csr"].str]

\* CheckDecoded without the trailing-data check
CheckDecoded_NoTrailingCheck(d) ==
    IF ~d.found THEN
        [err |-> Errorf("failed to decode 'csr' PEM block", "", 0), Bytes |-> <<>>]
    ELSE [err |-> NoError, Bytes |-> d.Bytes]

\* CheckDecoded with the nil-block check first
CheckDecoded_BlockFirst(d) ==
    IF ~d.found THEN
        [err |-> Errorf("failed to decode 'csr' PEM block", "", 0), Bytes |-> <<>>]
    ELSE IF Len(d.rest) > 0 THEN
        [err |-> Errorf("failed to decode 'csr': %v bytes of trailing data after PEM block",
                        "", Len(d.rest)),
         Bytes |-> <<>>]
    ELSE [err |-> NoError, Bytes |-> d.Bytes]

\* After pem.Decode: the trailing-data check comes before the nil-block
\* check.  [err, Bytes]
CheckDecoded(d) ==
    IF Len(d.rest) > 0 THEN
        [err |-> Errorf("failed to decode 'csr': %v bytes of trailing data after PEM block",
                        "", Len(d.rest)),
         Bytes |-> <<>>]
    ELSE IF ~d.found THEN
        [err |-> Errorf("failed to decode 'csr' PEM block", "", 0), Bytes |-> <<>>]
    ELSE [err |-> NoError, Bytes |-> d.Bytes]

\* AttachParsed that also takes the 'csr' text out of the request
AttachParsed_ConsumesCSR(r, c) ==
    IF c.err # "" THEN
        [req |-> r,
         err |-> Errorf("failed to parse certificate request: %w", c.err, 0),
         x509 |-> TRUE]
    ELSE [req |-> [r EXCEPT !.ParsedCSR = c.csr, !.UserRequestKV = <<>>],
          err |-> NoError, x509 |-> TRUE]

\* AttachParsed that resets ParsedCSR when the DER does not parse
AttachParsed_ResetsOnError(r, c) ==
    [req |-> [r EXCEPT !.ParsedCSR = c.csr],
     err |-> IF c.err # ""
             THEN Errorf("failed to parse certificate request: %w", c.err, 0)
             ELSE NoError,
     x509 |-> TRUE]

\* After x509.ParseCertificateRequest: the parsed request is attached
AttachParsed(r, c) ==
    IF c.err # "" THEN
        [req |-> r,
         err |-> Errorf("failed to parse certificate request: %w", c.err, 0),
         x509 |-> TRUE]
    ELSE [req |-> [r EXCEPT !.ParsedCSR = c.csr], err |-> NoError, x509 |-> TRUE]

\* The PEM block's bytes are parsed only if decoding raised no error
ParseDecoded(r, b) ==
    IF b.err # NoError THEN [req |-> r, err |-> b.err, x509 |-> FALSE]
    ELSE AttachParsed(r, ParseCertificateRequest(b.Bytes))

\* The 'csr' string is decoded only if the lookup raised no error
DecodeLooked(r, l) ==
    IF l.err # NoError THEN [req |-> r, err |-> l.err, x509 |-> FALSE]
    ELSE ParseDecoded(r, CheckDecoded(Decode(l.csrValue)))

\* func (req *CIEPSRequest) ParseUserCSR() error: the request after the
\* call and the error returned.  x509 records whether the DER parser ran.
ParseUserCSR(r) == DecodeLooked(r, LookupCSR(r.UserRequestKV))

(***************************************************************************)
(* The struct tags and encoding/json.  A field is its Go name, its JSON    *)
(* key ("-": never encoded nor decoded), its omitempty option and the zero *)
(* value of its type.                                                      *)
(***************************************************************************)
Field(go, json, omitempty, zero) ==
    [go |-> go, json |-> json, omitempty |-> omitempty, zero |-> zero]

\* type CIEPSIssuanceConfig struct
CIEPSIssuanceConfigFields ==
    { Field("AIAValues", "aia_values", FALSE, Nil),
      Field("LeafNotAfterBehavior", "leaf_not_after_behavior", FALSE, ""),
      Field("MountDefaultTTL", "mount_default_ttl", FALSE, ""),
      Field("MountMaxTTL", "mount_max_ttl", FALSE, "") }

\* type CIEPSVaultParams struct, Config apart
CIEPSVaultParamsFields ==
    { Field("PolicyName", "policy_name", TRUE, ""),
      Field("Mount", "mount", FALSE, ""),
      Field("Namespace", "ns", FALSE, ""),
      Field("IsPerfStandby", "vault_is_performance_standby", FALSE, FALSE),
      Field("IsPRSecondary", "vault_is_performance_secondary", FALSE, FALSE),
      Field("IssuanceMode", "issuance_mode", FALSE, ""),
      Field("GeneratedKey", "vault_generated_private_key", FALSE, FALSE),
      Field("IssuerName", "requested_issuer_name", FALSE, ""),
      Field("IssuerID", "requested_issuer_id", FALSE, ""),
      Field("IssuerCert", "requested_issuer_cert", FALSE, "") }

\* CIEPSRequest with no tag on ParsedCSR
CIEPSRequestFields_Untagged ==
    { Field("Version", "request_version", FALSE, 0),
      Field("UUID", "request_uuid", FALSE, ""),
      Field("Sync", "synchronous", FALSE, FALSE),
      Field("UserRequestKV", "user_request_key_values", FALSE, <<>>),
      Field("IdentityRequestKV", "identity_request_key_values", TRUE, <<>>),
      Field("ACMERequestKV", "acme_request_key_values", TRUE, <<>>),
      Field("ParsedCSR", "ParsedCSR", FALSE, Nil) }

\* type CIEPSRequest struct, VaultRequestKV apart
CIEPSRequestFields ==
    { Field("Version", "request_version", FALSE, 0),
      Field("UUID", "request_uuid", FALSE, ""),
      Field("Sync", "synchronous", FALSE, FALSE),
      Field("UserRequestKV", "user_request_key_values", FALSE, <<>>),
      Field("IdentityRequestKV", "identity_request_key_values", TRUE, <<>>),
      Field("ACMERequestKV", "acme_request_key_values", TRUE, <<>>),
      Field("ParsedCSR", "-", FALSE, Nil) }

\* CIEPSResponse with no tag on ParsedCertificate
CIEPSResponseFields_Untagged ==
    { Field("UUID", "request_uuid", FALSE, ""),
      Field("Error", "error", TRUE, ""),
      Field("Warnings", "warnings", TRUE, <<>>),
      Field("Certificate", "certificate", FALSE, <<>>),
      Field("ParsedCertificate", "ParsedCertificate", FALSE, Nil),
      Field("IssuerRef", "issuer_ref", FALSE, ""),
      Field("StoreCert", "store_certificate", FALSE, FALSE),
      Field("GenerateLease", "generate_lease", FALSE, FALSE) }

\* type CIEPSResponse struct
CIEPSResponseFields ==
    { Field("UUID", "request_uuid", FALSE, ""),
      Field("Error", "error", TRUE, ""),
      Field("Warnings", "warnings", TRUE, <<>>),
      Field("Certificate", "certificate", FALSE, <<>>),
      Field("ParsedCertificate", "-", FALSE, Nil),
      Field("IssuerRef", "issuer_ref", FALSE, ""),
      Field("StoreCert", "store_certificate", FALSE, FALSE),
      Field("GenerateLease", "generate_lease", FALSE, FALSE) }

\* The JSON keys a struct declares
JSONKeys(fields) == {f.json : f \in {g \in fields : g.json # "-"}}

FieldOfKey(fields, k) == CHOOSE f \in fields : f.json = k

\* json.Marshal of a struct value: the object with a member for every
\* field that has a key and is not an omitted empty value
Marshal(v, fields) ==
    LET sent == {f \in fields : f.json # "-" /\ ~(f.omitempty /\ v[f.go] = f.zero)}
    IN  [k \in {f.json : f \in sent} |-> v[FieldOfKey(fields, k).go]]

\* json.Unmarshal into a zero struct value: every field whose key the object
\* holds takes the member's value, every other field keeps its zero value
Unmarshal(body, fields) ==
    [n \in {f.go : f \in fields} |->
        LET f == CHOOSE g \in fields : g.go = n
        IN  IF f.json # "-" /\ f.json \in DOMAIN body THEN body[f.json] ELSE f.zero]

\* The wire form of a request
MarshalRequest(r) ==
    Marshal(r, CIEPSRequestFields) @@
    ("vault_request_values" :>
        (Marshal(r.VaultRequestKV, CIEPSVaultParamsFields) @@
         ("requested_issuance_config" :>
            Marshal(r.VaultRequestKV.Config, CIEPSIssuanceConfigFields))))

\* The wire form of a response
MarshalResponse(c) == Marshal(c, CIEPSResponseFields)

\* Decoding a response body with unknown fields disallowed: [err, resp]
DecodeResponse(body) ==
    IF DOMAIN body \subseteq JSONKeys(CIEPSResponseFields)
    THEN [err |-> NoError, resp |-> Ptr(Unmarshal(body, CIEPSResponseFields))]
    ELSE [err |-> Errorf("json: unknown field", "", 0), resp |-> Nil]

(***************************************************************************)
(* CIEPSResponse                                                           *)
(***************************************************************************)
\* MarshalCertificate that checks only for a nil ParsedCertificate
MarshalCertificate_NoRawCheck(c) ==
    IF c.ParsedCertificate = Nil THEN
        [resp |-> c, err |-> Errorf("no certificate present", "", 0)]
    ELSE [resp |-> [c EXCEPT !.Certificate =
                        EncodeToMemory(CertificateType, c.ParsedCertificate[1].Raw)],
          err |-> NoError]

\* func (c *CIEPSResponse) MarshalCertificate() error: the response after
\* the call and the error returned
MarshalCertificate(c) ==
    IF c.ParsedCertificate = Nil \/ Len(c.ParsedCertificate[1].Raw) = 0 THEN
        [resp |-> c, err |-> Errorf("no certificate present", "", 0)]
    ELSE
        LET pem == EncodeToMemory(CertificateType, c.ParsedCertificate[1].Raw)
        IN  IF Len(pem) = 0 THEN
                [resp |-> c, err |-> Errorf("failed to generate PEM: no body", "", 0)]
            ELSE [resp |-> [c EXCEPT !.Certificate = pem], err |-> NoError]

(***************************************************************************)
(* Inputs                                                                  *)
(***************************************************************************)
\* Longest content of a certificate-request SEQUENCE
MaxContentLen == 1

\* Longest run of bytes appended after a PEM block
MaxTrailingLen == 2

\* Longest raw certificate built from RawBytes
MaxRawLen == 2

\* All sequences over S of length at most n
SeqsUpTo(S, n) == UNION {[1..k -> S] : k \in 0..n}

\* DER that parses as a certificate request
ValidDER == {<<48, Len(c)>> \o c : c \in SeqsUpTo({1, 2}, MaxContentLen)}

\* DER that does not: empty, truncated, wrong tag, short, trailing data
InvalidDER == {<<>>, <<48>>, <<49, 0>>, <<48, 1>>, <<48, 0, 7>>}

\* What may follow a block: nothing, newlines and garbage, a second block
Trailers ==
    SeqsUpTo({10, 120}, MaxTrailingLen)
    \cup {EncodeToMemory(CertificateRequestType, <<48, 0>>)}

\* "junk", a block type line that never ends, a block whose END line names
\* another type, a block of bad base64
TextsWithoutBlock ==
    { <<106, 117, 110, 107>>,
      Drop(pemStart, 1) \o CertificateRequestType \o pemEndOfLine \o <<10>>
        \o <<77, 65, 65, 61, 10>>,
      Drop(pemStart, 1) \o CertificateRequestType \o pemEndOfLine \o <<10>>
        \o <<77, 65, 65, 61>> \o pemEnd \o CertificateType \o pemEndOfLine \o <<10>>,
      Drop(pemStart, 1) \o CertificateRequestType \o pemEndOfLine \o <<10>>
        \o <<77, 65, 65>> \o pemEnd \o CertificateRequestType \o pemEndOfLine \o <<10>> }

\* The strings a caller may send as 'csr'
CSRTexts ==
    {<<>>}
    \cup {EncodeToMemory(CertificateRequestType, d) \o t :
            d \in ValidDER \cup InvalidDER, t \in Trailers}
    \cup {<<106, 10>> \o EncodeToMemory(CertificateType, d) : d \in ValidDER}
    \cup TextsWithoutBlock

\* user_request_key_values as received: with or without 'csr', of any type
UserRequestKVs ==
    {("common_name" :> StringValue(<<97>>))}
    \cup {("csr" :> OtherValue(t)) : t \in {"float64", "bool", "<nil>"}}
    \cup {("csr" :> StringValue(t)) : t \in CSRTexts}

\* Parsed certificates: their raw bytes, which may be empty
RawCertificates ==
    SeqsUpTo({0, 77, 255}, MaxRawLen) \cup {[i \in 1..50 |-> (i * 37) % 256]}

ParsedCertificates == {Ptr([Raw |-> r]) : r \in RawCertificates}

\* The parameters Vault validated, as one request carries them
VaultParams(standby) ==
    [PolicyName |-> "", Mount |-> "pki", Namespace |-> "",
     IsPerfStandby |-> standby, IsPRSecondary |-> FALSE,
     IssuanceMode |-> "sign", GeneratedKey |-> FALSE,
     IssuerName |-> "default", IssuerID |-> "i1", IssuerCert |-> "",
     Config |-> [AIAValues |-> Nil, LeafNotAfterBehavior |-> "err",
                 MountDefaultTTL |-> "1h", MountMaxTTL |-> "2h"]]

\* A request as constructed: nothing parsed yet
NewRequest(uuid, kv, standby) ==
    [Version |-> 1, UUID |-> uuid, Sync |-> TRUE,
     UserRequestKV |-> kv, IdentityRequestKV |-> <<>>, ACMERequestKV |-> <<>>,
     VaultRequestKV |-> VaultParams(standby), ParsedCSR |-> Nil]

\* The zero CIEPSResponse
ZeroResponse == Unmarshal(<<>>, CIEPSResponseFields)

\* Response bodies off the wire: what a service sends for a response it
\* built, with members left out and with undeclared members added
ResponseBodies ==
    LET sent == {MarshalResponse([ZeroResponse EXCEPT !.UUID = "u1",
                                     !.Certificate = EncodeToMemory(CertificateType, r),
                                     !.IssuerRef = "i1", !.StoreCert = st,
                                     !.Warnings = w]) :
                    r \in {<<48, 0>>}, st \in BOOLEAN, w \in {<<>>, <<"w">>}}
        extra == {("ParsedCertificate" :> Ptr([Raw |-> <<48, 0>>])),
                  ("-" :> Ptr([Raw |-> <<48, 0>>])),
                  ("sign_verbatim" :> TRUE)}
    IN  sent \cup {b @@ e : b \in sent, e \in extra}
        \cup {("request_uuid" :> "u1"), ("error" :> "denied" @@ "request_uuid" :> "u1")}

\* Issuance calls one behaviour follows
MaxRequests == 1

\* Changes of the active node one behaviour follows
MaxFailovers == 1

RequestUUIDs == {"u" \o ToString(k) : k \in 1..MaxRequests}

Nodes == {"n1", "n2"}

\* What the CIEPS service may answer to the request uuid: a certificate
\* with any store and lease flags, a refusal, a certificate that is not
\* PEM, and an answer carrying an undeclared member
ServiceCertificate == EncodeToMemory(CertificateType, <<48, 0>>)

ServiceBodies(uuid) ==
    LET ok == {MarshalResponse([ZeroResponse EXCEPT !.UUID = uuid,
                                   !.Certificate = ServiceCertificate,
                                   !.IssuerRef = "i1", !.StoreCert = st,
                                   !.GenerateLease = gl]) :
                  st \in BOOLEAN, gl \in BOOLEAN}
    IN  ok
        \cup {b @@ e : b \in {c \in ok : c["store_certificate"] /\ c["generate_lease"]},
                        e \in {("sign_verbatim" :> TRUE),
                                ("ParsedCertificate" :> Ptr([Raw |-> <<48, 0>>]))}}
        \cup {MarshalResponse([ZeroResponse EXCEPT !.UUID = uuid, !.Error = "denied",
                                  !.StoreCert = TRUE]),
              MarshalResponse([ZeroResponse EXCEPT !.UUID = uuid,
                                  !.Certificate = <<106, 117, 110, 107>>,
                                  !.StoreCert = TRUE])}

(***************************************************************************)
(* State                                                                   *)
(***************************************************************************)
VARIABLES
    object,   \* the object the behaviour follows: "request", "response",
              \* or "none" when it follows the dispatch of issuance calls
    req,      \* the CIEPSRequest
    resp,     \* the CIEPSResponse
    last,     \* the last operation on the object: its name, the error it
              \* returned, and whether it ran the DER parser
    role,     \* the cluster role of every node, now
    calls,    \* every issuance call: its state, the node handling it, the
              \* request that node built and the response body it received
    cieps,    \* the requests the CIEPS service has received
    parsed,   \* the response bodies whose certificate a node has parsed
    issued,   \* the response bodies a node has used to sign and issue
    store,    \* the store calls recorded by the persistence layer
    leases,   \* the leases created
    failovers \* how often the active node has changed

objectVars == <<object, req, resp, last>>

dispatchVars == <<role, calls, cieps, parsed, issued, store, leases, failovers>>

vars == <<object, req, resp, last, role, calls, cieps, parsed, issued, store,
          leases, failovers>>

Call(op, err, x509) == [op |-> op, err |-> err, x509 |-> x509]

NoCall == [state |-> "idle", node |-> "", request |-> Nil, body |-> <<>>]

\* No issuance call has arrived
InitDispatch ==
    /\ role = [n \in Nodes |-> IF n = "n1" THEN "active" ELSE "standby"]
    /\ calls = [u \in RequestUUIDs |-> NoCall]
    /\ cieps = {}
    /\ parsed = {}
    /\ issued = {}
    /\ store = {}
    /\ leases = {}
    /\ failovers = 0

Init ==
    /\ object \in {"request", "response"}
    /\ req \in IF object = "request"
               THEN {NewRequest("u1", kv, FALSE) : kv \in UserRequestKVs}
               ELSE {NewRequest("", <<>>, FALSE)}
    /\ resp = ZeroResponse
    /\ last = Call("new", NoError, FALSE)
    /\ InitDispatch

(***************************************************************************)
(* Operations on the objects                                               *)
(***************************************************************************)
\* The caller replaces user_request_key_values
SetUserRequestKV ==
    /\ object = "request"
    /\ \E kv \in UserRequestKVs : req' = [req EXCEPT !.UserRequestKV = kv]
    /\ last' = Call("SetUserRequestKV", NoError, FALSE)
    /\ UNCHANGED <<object, resp>>
    /\ UNCHANGED dispatchVars

\* req.ParseUserCSR()
CallParseUserCSR ==
    /\ object = "request"
    /\ LET out == ParseUserCSR(req)
       IN  /\ req' = out.req
           /\ last' = Call("ParseUserCSR", out.err, out.x509)
    /\ UNCHANGED <<object, resp>>
    /\ UNCHANGED dispatchVars

\* The service attaches the certificate it built, or none
SetParsedCertificate ==
    /\ object = "response"
    /\ \E c \in ParsedCertificates \cup {Nil} :
          resp' = [resp EXCEPT !.ParsedCertificate = c]
    /\ last' = Call("SetParsedCertificate", NoError, FALSE)
    /\ UNCHANGED <<object, req>>
    /\ UNCHANGED dispatchVars

\* c.MarshalCertificate()
CallMarshalCertificate ==
    /\ object = "response"
    /\ LET out == MarshalCertificate(resp)
       IN  /\ resp' = out.resp
           /\ last' = Call("MarshalCertificate", out.err, FALSE)
    /\ UNCHANGED <<object, req>>
    /\ UNCHANGED dispatchVars

\* A response body is decoded; a body that fails to decode yields no
\* response and the object in hand is left as it was
CallDecodeResponse ==
    /\ object = "response"
    /\ \E body \in ResponseBodies \cup {MarshalResponse(resp)} :
          LET out == DecodeResponse(body)
          IN  /\ resp' = IF out.resp = Nil THEN resp ELSE out.resp[1]
              /\ last' = Call("DecodeResponse", out.err, FALSE)
    /\ UNCHANGED <<object, req>>
    /\ UNCHANGED dispatchVars

Next ==
    \/ SetUserRequestKV
    \/ CallParseUserCSR
    \/ SetParsedCertificate
    \/ CallMarshalCertificate
    \/ CallDecodeResponse

Spec == Init /\ [][Next]_vars

(***************************************************************************)
(* Properties of ParseUserCSR and MarshalCertificate, under Spec           *)
(***************************************************************************)
ParseCalled == last.op = "ParseUserCSR"

ParseCalledNext == last'.op = "ParseUserCSR"

HasCSR == "csr" \in DOMAIN req.UserRequestKV

HasCSRString == HasCSR /\ req.UserRequestKV["csr"].T = "string"

CSRText == req.UserRequestKV["csr"].str

TrailingData(n) ==
    Errorf("failed to decode 'csr': %v bytes of trailing data after PEM block", "", n)

\* C1: ParseUserCSR returns the missing-attribute error when there is no
\* 'csr' key, the unexpected-type error naming the received type when the
\* value is not a string, and the unexpectedly-empty error when it is the
\* empty string; in each case the call leaves the request, ParsedCSR
\* included, as it was.
C1_CSRFieldErrors ==
    [][ParseCalledNext =>
          /\ ~HasCSR =>
                /\ last'.err = Errorf("missing expected 'csr' attribute on the request", "", 0)
                /\ req' = req
          /\ (HasCSR /\ ~HasCSRString) =>
                /\ last'.err = Errorf("unexpected type of 'csr' attribute: %T",
                                      req.UserRequestKV["csr"].T, 0)
                /\ req' = req
          /\ (HasCSRString /\ CSRText = <<>>) =>
                /\ last'.err = Errorf("unexpectedly empty 'csr' attribute on the request", "", 0)
                /\ req' = req]_vars

C1_Witness ==
    /\ ParseCalled
    /\ HasCSR
    /\ req.UserRequestKV["csr"].T = "float64"
    /\ last.err.text = "float64"
    /\ req.ParsedCSR = Nil

\* The 'csr' text is a PEM block of d followed by the bytes t
BlockThen(text, d, t) == text = EncodeToMemory(CertificateRequestType, d) \o t

\* C2: when n > 0 bytes remain after the first PEM block of a non-empty
\* 'csr' string, ParseUserCSR fails with the trailing-data error naming n,
\* without running the DER parser and without changing the request.
C2_TrailingDataRejected ==
    [][(ParseCalledNext /\ HasCSRString /\ CSRText # <<>>) =>
          /\ \A d \in ValidDER \cup InvalidDER, t \in Trailers \ {<<>>} :
                BlockThen(CSRText, d, t) => last'.err = TrailingData(Len(t))
          /\ (Decode(CSRText).found /\ Len(Decode(CSRText).rest) > 0) =>
                /\ last'.err = TrailingData(Len(Decode(CSRText).rest))
                /\ ~last'.x509
                /\ req' = req]_vars

\* A second whole block after the first one is named with its full length
C2_Witness ==
    /\ ParseCalled
    /\ HasCSRString
    /\ \E d \in ValidDER :
          BlockThen(CSRText, d, EncodeToMemory(CertificateRequestType, <<48, 0>>))
    /\ last.err = TrailingData(Len(EncodeToMemory(CertificateRequestType, <<48, 0>>)))
    /\ req.ParsedCSR = Nil

\* C3: when the 'csr' string is one well-formed PEM block, with no trailing
\* bytes, of a valid certificate request d, ParseUserCSR returns no error,
\* ParsedCSR is the request parsed from d and every other field of the
\* request is unchanged.
C3_WellFormedParsed ==
    [][(ParseCalledNext /\ HasCSRString) =>
          \A d \in ValidDER :
             BlockThen(CSRText, d, <<>>) =>
                /\ last'.err = NoError
                /\ req'.ParsedCSR # Nil
                /\ req'.ParsedCSR[1].Raw = d
                /\ req'.ParsedCSR[1].RawTBSCertificateRequest = Drop(d, 2)
                /\ [req' EXCEPT !.ParsedCSR = req.ParsedCSR] = req]_vars

C3_Witness ==
    /\ ParseCalled
    /\ HasCSRString
    /\ BlockThen(CSRText, <<48, 1, 2>>, <<>>)
    /\ last.err = NoError
    /\ req.ParsedCSR = Ptr([Raw |-> <<48, 1, 2>>, RawTBSCertificateRequest |-> <<2>>])
    /\ req.UUID = "u1"

MarshalCalled == last.op = "MarshalCertificate"

NoCertificate == resp.ParsedCertificate = Nil \/ resp.ParsedCertificate[1].Raw = <<>>

\* "-----BEGIN CERTIFICATE-----\n"
BeginCertificate == Drop(pemStart, 1) \o CertificateType \o pemEndOfLine \o <<10>>

\* C4: MarshalCertificate returns an error exactly when ParsedCertificate is
\* nil or its raw bytes are empty, and then leaves Certificate alone; in
\* every other case Certificate becomes the PEM text of one block of type
\* CERTIFICATE holding the raw bytes, whatever it held before.
C4_MarshalCertificate ==
    [][last'.op = "MarshalCertificate" =>
          /\ (last'.err # NoError) <=> NoCertificate
          /\ resp'.ParsedCertificate = resp.ParsedCertificate
          /\ NoCertificate => resp'.Certificate = resp.Certificate
          /\ ~NoCertificate =>
                /\ resp'.Certificate =
                      EncodeToMemory(CertificateType, resp.ParsedCertificate[1].Raw)
                /\ HasPrefix(resp'.Certificate, BeginCertificate)]_vars

\* The call succeeded on a response that came off the wire with another
\* certificate text
C4_Witness ==
    /\ MarshalCalled
    /\ last.err = NoError
    /\ resp.UUID = "u1"
    /\ resp.ParsedCertificate = Ptr([Raw |-> <<77, 255>>])
    /\ resp.Certificate = EncodeToMemory(CertificateType, <<77, 255>>)

\* C5: after a successful MarshalCertificate, PEM-decoding Certificate gives
\* one block and no trailing bytes, and the block's payload is the raw
\* bytes of ParsedCertificate.
C5_RoundTrip ==
    (MarshalCalled /\ last.err = NoError) =>
        Decode(resp.Certificate) =
            [found |-> TRUE, Type |-> CertificateType,
             Bytes |-> resp.ParsedCertificate[1].Raw, rest |-> <<>>]

\* A certificate long enough for its base64 text to span two lines
C5_Witness ==
    /\ MarshalCalled
    /\ last.err = NoError
    /\ Len(resp.ParsedCertificate[1].Raw) = 50
    /\ Len(resp.Certificate) > Len(BeginCertificate) + pemLineLength + 1

\* C8: the wire form of a request does not depend on ParsedCSR and is the
\* same before and after ParseUserCSR; the wire form of a response does
\* not depend on ParsedCertificate, and a decoded response has no
\* ParsedCertificate.
C8_ParsedNeverOnWire ==
    /\ [](MarshalRequest(req) = MarshalRequest([req EXCEPT !.ParsedCSR = Nil]))
    /\ [](MarshalResponse(resp) = MarshalResponse([resp EXCEPT !.ParsedCertificate = Nil]))
    /\ []((last.op = "DecodeResponse" /\ last.err = NoError) =>
             resp.ParsedCertificate = Nil)
    /\ [][ParseCalledNext => MarshalRequest(req') = MarshalRequest(req)]_vars

C8_Witness ==
    /\ ParseCalled
    /\ last.err = NoError
    /\ req.ParsedCSR # Nil
    /\ DOMAIN MarshalRequest(req) =
          {"request_version", "request_uuid", "synchronous",
           "user_request_key_values", "vault_request_values"}

\* The request ParseUserCSR would parse out of the current 'csr' text
ParsedFromText == ParseCertificateRequest(Decode(CSRText).Bytes).csr

\* C9: a failing ParseUserCSR leaves ParsedCSR as it was and a failing
\* MarshalCertificate leaves Certificate as it was; ParsedCSR is the parse
\* of the current 'csr' text right after a call that returned no error.
C9_FailureChangesNothing ==
    /\ [][(ParseCalledNext /\ last'.err # NoError) =>
             req'.ParsedCSR = req.ParsedCSR]_vars
    /\ [][(last'.op = "MarshalCertificate" /\ last'.err # NoError) =>
             resp'.Certificate = resp.Certificate]_vars
    /\ []((ParseCalled /\ last.err = NoError) => req.ParsedCSR = ParsedFromText)

\* An earlier parse outlives a failed call on a text that replaced it
C9_Witness ==
    /\ ParseCalled
    /\ last.err # NoError
    /\ req.ParsedCSR # Nil
    /\ HasCSRString
    /\ CSRText \in TextsWithoutBlock

\* C10: the first failing check decides the error: a 'csr' string holding
\* no PEM block is reported as trailing data of its whole length, trailing
\* data is reported before a bad DER payload is looked at, only the last
\* check runs the DER parser, and no call returns the "failed to decode
\* 'csr' PEM block" error.
C10_CheckOrder ==
    ParseCalled =>
        /\ last.err.msg # "failed to decode 'csr' PEM block"
        /\ (HasCSRString /\ CSRText \in TextsWithoutBlock) =>
              last.err = TrailingData(Len(CSRText))
        /\ (HasCSRString /\ CSRText # <<>> /\ ~Decode(CSRText).found) =>
              last.err = TrailingData(Len(CSRText))
        /\ (HasCSRString /\ \E d \in InvalidDER, t \in Trailers \ {<<>>} :
                                BlockThen(CSRText, d, t)) =>
              last.err.msg = TrailingData(0).msg
        /\ last.x509 <=>
              last.err.msg \in {"", "failed to parse certificate request: %w"}

C10_Witness ==
    /\ ParseCalled
    /\ HasCSRString
    /\ CSRText = <<106, 117, 110, 107>>
    /\ last.err = TrailingData(4)


(***************************************************************************)
(* The dispatch of issuance calls over the nodes of a cluster              *)
(***************************************************************************)
ActiveNode == CHOOSE n \in Nodes : role[n] = "active"

\* A node sends the request it built to the CIEPS service
Submit(r, n) == cieps \cup {[uuid |-> r.UUID, node |-> n,
                             standby |-> r.VaultRequestKV.IsPerfStandby]}

\* The certificate text of a response is one PEM block and nothing more
WellFormedCertificate(d) == d.found /\ Len(d.rest) = 0 /\ Len(d.Bytes) > 0

\* Route that trusts the role the request was built with
Route_CapturedRole(n, r, dec) ==
    IF dec.err # NoError THEN "fail"
    ELSE IF dec.resp[1].Error # "" THEN "fail"
    ELSE IF ~WellFormedCertificate(Decode(dec.resp[1].Certificate)) THEN "fail"
    ELSE IF r.VaultRequestKV.IsPerfStandby /\ dec.resp[1].StoreCert THEN "forward"
    ELSE "issue"

\* What node n does with the decoded response to its request r: "fail",
\* "forward" or "issue".  The role that counts is the node's role now.
Route(n, r, dec) ==
    IF dec.err # NoError THEN "fail"
    ELSE IF dec.resp[1].Error # "" THEN "fail"
    ELSE IF ~WellFormedCertificate(Decode(dec.resp[1].Certificate)) THEN "fail"
    ELSE IF role[n] = "standby" /\ dec.resp[1].StoreCert THEN "forward"
    ELSE "issue"

\* What a node does with a response body
Outcome(n, r, body) == Route(n, r, DecodeResponse(body))

\* What the caller of an issuance call sends
CallerRequestKV ==
    ("csr" :> StringValue(EncodeToMemory(CertificateRequestType, <<48, 0>>)))

\* An issuance call arrives at node n, which builds the request with its
\* role of the moment and sends it to the CIEPS service
Issue(u, n) ==
    /\ calls[u].state = "idle"
    /\ LET r == NewRequest(u, CallerRequestKV, role[n] = "standby")
       IN  /\ calls' = [calls EXCEPT ![u] = [state |-> "sent", node |-> n,
                                             request |-> Ptr(r), body |-> <<>>]]
           /\ cieps' = Submit(r, n)
    /\ UNCHANGED <<role, parsed, issued, store, leases, failovers>>
    /\ UNCHANGED objectVars

\* The CIEPS service answers
Answer(u) ==
    /\ calls[u].state = "sent"
    /\ \E body \in ServiceBodies(calls[u].request[1].UUID) :
          calls' = [calls EXCEPT ![u].state = "answered", ![u].body = body]
    /\ UNCHANGED <<role, cieps, parsed, issued, store, leases, failovers>>
    /\ UNCHANGED objectVars

\* The node handles the answer: a response that does not decode, carries
\* an error or no certificate fails the call; a standby told to store
\* discards the response and forwards the call to the active node; any
\* other response is used to issue, store and lease on this node
Handle(u) ==
    /\ calls[u].state = "answered"
    /\ \E out \in {Outcome(calls[u].node, calls[u].request[1], calls[u].body)} :
       LET n == calls[u].node
           body == calls[u].body
           c == IF out = "fail" THEN ZeroResponse ELSE DecodeResponse(body).resp[1]
           entry == [uuid |-> calls[u].request[1].UUID, node |-> n,
                     role |-> role[n], members |-> DOMAIN body,
                     store |-> c.StoreCert]
       IN  /\ parsed' = IF out \in {"forward", "issue"}
                        THEN parsed \cup {entry} ELSE parsed
           /\ issued' = IF out = "issue" THEN issued \cup {entry} ELSE issued
           /\ store' = IF out = "issue" /\ c.StoreCert
                       THEN store \cup {[uuid |-> entry.uuid, issuer |-> c.IssuerRef,
                                         node |-> n, role |-> role[n],
                                         members |-> DOMAIN body]}
                       ELSE store
           /\ leases' = IF out = "issue" /\ c.GenerateLease
                        THEN leases \cup {entry} ELSE leases
           /\ calls' = [calls EXCEPT
                          ![u].state = CASE out = "fail" -> "failed"
                                         [] out = "forward" -> "forwarded"
                                         [] OTHER -> "done",
                          ![u].node = IF out = "forward" THEN ActiveNode ELSE n]
    /\ UNCHANGED <<role, cieps, failovers>>
    /\ UNCHANGED objectVars

\* The forwarded call arrives: the node that is active now builds the full
\* request again, under the same UUID, and sends it to the CIEPS service; a
\* node that is no longer active forwards the call on
ReceiveForward(u) ==
    /\ calls[u].state = "forwarded"
    /\ LET n == calls[u].node
           r == [calls[u].request[1] EXCEPT !.VaultRequestKV.IsPerfStandby = FALSE]
       IN  IF role[n] = "active"
           THEN /\ calls' = [calls EXCEPT ![u] = [state |-> "sent", node |-> n,
                                                  request |-> Ptr(r), body |-> <<>>]]
                /\ cieps' = Submit(r, n)
           ELSE /\ calls' = [calls EXCEPT ![u].node = ActiveNode]
                /\ UNCHANGED cieps
    /\ UNCHANGED <<role, parsed, issued, store, leases, failovers>>
    /\ UNCHANGED objectVars

\* The active node steps down and the standby takes over
Failover ==
    /\ failovers < MaxFailovers
    /\ failovers' = failovers + 1
    /\ role' = [n \in Nodes |-> IF role[n] = "active" THEN "standby" ELSE "active"]
    /\ UNCHANGED <<calls, cieps, parsed, issued, store, leases>>
    /\ UNCHANGED objectVars

NextDispatch ==
    \/ \E u \in RequestUUIDs, n \in Nodes : Issue(u, n)
    \/ \E u \in RequestUUIDs : Answer(u)
    \/ \E u \in RequestUUIDs : Handle(u)
    \/ \E u \in RequestUUIDs : ReceiveForward(u)
    \/ Failover

InitNone ==
    /\ object = "none"
    /\ req = NewRequest("", <<>>, FALSE)
    /\ resp = ZeroResponse
    /\ last = Call("new", NoError, FALSE)
    /\ InitDispatch

DispatchSpec == InitNone /\ [][NextDispatch]_vars

(***************************************************************************)
(* Properties of decoding and dispatch, under DispatchSpec                 *)
(***************************************************************************)
DeclaredMembers ==
    {"request_uuid", "error", "warnings", "certificate", "issuer_ref",
     "store_certificate", "generate_lease"}

StandbyToldToStore(u) ==
    /\ calls[u].state = "answered"
    /\ role[calls[u].node] = "standby"
    /\ DOMAIN calls[u].body = DeclaredMembers \ {"error", "warnings"}
    /\ calls[u].body["store_certificate"]
    /\ calls[u].body["certificate"] = ServiceCertificate

=============================================================================
